---- MODULE Spec2Model ----
(***************************************************************************)
(* The agent workflow of src/src/services/graph/workflow.py: the shared    *)
(* AgentState, the five agents behind BaseAgent.__call__, the planner      *)
(* (orchestrator_node) and the routers that pick the next node.            *)
(*                                                                         *)
(* Python values are records with a field `kind`; every value other than   *)
(* None also carries `falsy`, its truth value under `not`.  The external   *)
(* text-generation service is a nondeterministic choice among the classes  *)
(* of response the calling code tells apart: the call raises, the text is  *)
(* not JSON, or the text is JSON of some shape.  An exception that leaves  *)
(* a node aborts the run (node = "ERROR").  Message timestamps, the        *)
(* free-text `reason`/`reasoning` strings and the write-only fields        *)
(* orchestrator_reasoning, active_agents and next_agent are left out: no   *)
(* code reads them to take a decision.                                     *)
(***************************************************************************)
EXTENDS Integers, Sequences, FiniteSets, TLC

VARIABLES
    state,   \* the AgentState threaded through the graph
    node,    \* the node due next; "END" when done, "ERROR" after an exception
    last,    \* the node invoked last ("START" before the first)
    ran,     \* whether the agent invoked last activated
    path     \* the nodes invoked so far (the first MaxSteps of them)

vars == <<state, node, last, ran, path>>

----------------------------------------------------------------------------
(* Bounds of the model and constants of the program *)

\* Node invocations whose history is recorded in full; see Bounded and Visit.
MaxSteps == 11

\* QualityCheckerAgent.__init__: self.max_iterations = 2
max_iterations == 2

\* route_after_quality / route_after_synthesis: `if iteration < 2`
RouterIterationBound == 2

\* QualityCheckerAgent.run: `if len(faq_items) < 4`
MinFaqItems == 4

\* QualityCheckerAgent.run: `len(benefits) < 2`
MinBenefits == 2

----------------------------------------------------------------------------
(* Python values *)

None == [kind |-> "None"]
PyTrue == [kind |-> "bool", falsy |-> FALSE]
PyFalse == [kind |-> "bool", falsy |-> TRUE]

IsNone(v) == v.kind = "None"

\* `if v:` / `not v`
Truthy(v) == v.kind # "None" /\ ~v.falsy

\* raw_product_data: {} or a record whose "Benefits" lists n entries
RawRecord(n) == [kind |-> "dict", falsy |-> FALSE, benefits |-> n]
EmptyRawRecord == [kind |-> "dict", falsy |-> TRUE, benefits |-> 0]

\* product as built by ParseProductAgent.run: always the eight keys
Product(n) == [kind |-> "dict", falsy |-> FALSE, benefits |-> n]

\* questions: a dict of categories; `sliceable` says whether every value
\* supports q_list[:2] (a list or a string) as _generate_faq_page needs
Questions(isEmpty, sliceable) ==
    [kind |-> "dict", falsy |-> isEmpty, sliceable |-> sliceable]

\* faq_page: a dict; items = len(faq_page.get("items", []))
FaqPage(isEmpty, n) == [kind |-> "dict", falsy |-> isEmpty, items |-> n]

\* product_page: the dict of _generate_product_page; "benefits" is whatever
\* the benefits tool returned
ProductPage(isList, n) ==
    [kind |-> "dict", falsy |-> FALSE, benefits_is_list |-> isList, benefits |-> n]

\* comparison_page: whatever the comparison tool returned
ComparisonPage(kind, isEmpty, products) ==
    [kind |-> kind, falsy |-> isEmpty, products |-> products]

----------------------------------------------------------------------------
(* Messages *)

Msg(from, to, type, status, action, target) ==
    [from_agent |-> from, to_agent |-> to, message_type |-> type,
     content |-> [status |-> status, action |-> action, target |-> target]]

\* BaseAgent.send_message: {"messages": [message.to_dict()]}
send_message(name, to, type, status, action, target) ==
    [messages |-> <<Msg(name, to, type, status, action, target)>>]

\* Mutant: messages sent to all agents are not read
read_messages_direct_only(name, s) ==
    SelectSeq(s.messages, LAMBDA m : m.to_agent = name)

\* BaseAgent.read_messages
read_messages(name, s) ==
    SelectSeq(s.messages,
              LAMBDA m : m.to_agent = name \/ m.to_agent = "broadcast")

\* BaseAgent.__call__: has_request
has_request(name, s) ==
    LET msgs == read_messages(name, s)
    IN  \E i \in 1..Len(msgs) : msgs[i].message_type = "request"

----------------------------------------------------------------------------
(* State store *)

Accumulate == {"messages", "completed_tasks"}

\* Mutant: every field of the update overwrites, the logs included
Merge_replaces_all(s, u) ==
    [f \in DOMAIN s |-> IF f \in DOMAIN u THEN u[f] ELSE s[f]]

\* Mutant: the new entries of a log go before the existing ones
Merge_prepends(s, u) ==
    [f \in DOMAIN s |->
        IF f \in DOMAIN u
        THEN IF f \in Accumulate THEN u[f] \o s[f] ELSE u[f]
        ELSE s[f]]

\* Mutant: an entry the log holds already is not appended again
Merge_drops_duplicates(s, u) ==
    [f \in DOMAIN s |->
        IF f \in DOMAIN u
        THEN IF f \in Accumulate
             THEN s[f] \o SelectSeq(u[f], LAMBDA e : \A i \in 1..Len(s[f]) : s[f][i] # e)
             ELSE u[f]
        ELSE s[f]]

\* The merge the graph engine applies to a node's partial update: fields
\* annotated with operator.add are concatenated, the others overwritten.
Merge(s, u) ==
    [f \in DOMAIN s |->
        IF f \in DOMAIN u
        THEN IF f \in Accumulate THEN s[f] \o u[f] ELSE u[f]
        ELSE s[f]]

\* main.py: initial_state, for an input record `raw`
initial_state(raw) ==
    [raw_product_data |-> raw,
     product          |-> None,
     questions        |-> None,
     faq_page         |-> None,
     product_page     |-> None,
     comparison_page  |-> None,
     plan             |-> <<>>,
     messages         |-> <<>>,
     completed_tasks  |-> <<>>,
     iteration_count  |-> 0,
     needs_refinement |-> None]

\* An exception leaving the node
Raise == [exception |-> TRUE]
Raised(u) == "exception" \in DOMAIN u

----------------------------------------------------------------------------
(* The external text-generation service, LLMService.generate, as seen by a *)
(* caller that passes the text to json.loads                               *)

\* generate raised (it re-raises every failure as a plain Exception)
ServiceError == [kind |-> "ServiceError"]
\* text that json.loads rejects (json.JSONDecodeError)
NotJson == [kind |-> "NotJson"]
\* text that json.loads turns into value v
Json(v) == [kind |-> "json", value |-> v]
\* a JSON value that is no dict (a list, a string, a number)
NonDict == [kind |-> "list", falsy |-> FALSE]

BenefitCounts == {MinBenefits - 1, MinBenefits}
FaqItemCounts == {MinFaqItems - 1, MinFaqItems}

QuestionResponses ==
    {ServiceError, NotJson, Json(None), Json(NonDict),
     Json(Questions(TRUE, TRUE)), Json(Questions(FALSE, TRUE)),
     Json(Questions(FALSE, FALSE))}

FaqResponses ==
    {ServiceError, NotJson, Json(None), Json(NonDict), Json(FaqPage(TRUE, 0))}
    \cup {Json(FaqPage(FALSE, n)) : n \in FaqItemCounts}

BenefitsResponses ==
    {ServiceError, NotJson, Json(None)}
    \cup {Json([kind |-> "list", falsy |-> FALSE, len |-> n]) : n \in BenefitCounts}

ComparisonResponses ==
    {ServiceError, NotJson, Json(None),
     Json(ComparisonPage("list", FALSE, FALSE)),
     Json(ComparisonPage("dict", TRUE, FALSE)),
     Json(ComparisonPage("dict", FALSE, FALSE)),
     Json(ComparisonPage("dict", FALSE, TRUE))}

----------------------------------------------------------------------------
(* ParseProductAgent *)

ParseProductAgent_should_activate(s) ==
    IF ~Truthy(s.product) THEN TRUE
    ELSE LET msgs == read_messages("parse_product_worker", s)
         IN  \E i \in 1..Len(msgs) : msgs[i].content.action = "reparse"

\* Mutant: the record is parsed without testing that it is there
ParseProductAgent_run_parses_unchecked(s) ==
    {[product |-> Product(s.raw_product_data.benefits),
      messages |-> <<Msg("parse_product_worker", "broadcast", "notify",
                         "product_parsed", "", "")>>,
      completed_tasks |-> <<"parse_product">>]}

\* The set of updates run can return (one: parsing calls no service)
ParseProductAgent_run(s) ==
    LET raw == s.raw_product_data
    IN  IF ~Truthy(raw)
        THEN {send_message("parse_product_worker", "orchestrator", "request",
                           "", "", "")}
        ELSE {[product |-> Product(raw.benefits),
               messages |-> <<Msg("parse_product_worker", "broadcast", "notify",
                                  "product_parsed", "", "")>>,
               completed_tasks |-> <<"parse_product">>]}

----------------------------------------------------------------------------
(* QuestionGenerationAgent *)

QuestionGenerationAgent_should_activate(s) ==
    IF ~Truthy(s.questions) THEN TRUE
    ELSE LET msgs == read_messages("question_gen_worker", s)
         IN  \E i \in 1..Len(msgs) :
                /\ msgs[i].message_type = "request"
                /\ \/ msgs[i].content.action = "regenerate"
                   \/ msgs[i].content.target = "questions"

\* _generate_fallback_questions: five non-empty categories, no messages
QuestionGenerationAgent_generate_fallback_questions ==
    [questions |-> Questions(FALSE, TRUE),
     completed_tasks |-> <<"generate_questions">>]

\* The try block of run for service response r: every exception is caught
\* (`except Exception`), so a response that is no dict of sized values
\* (.values() or len() raises) ends in the fallback like a failed call.
QuestionGenerationAgent_generate(r) ==
    IF r.kind = "json" /\ r.value.kind = "dict"
    THEN [questions |-> r.value,
          completed_tasks |-> <<"generate_questions">>,
          messages |-> <<Msg("question_gen_worker", "broadcast", "notify",
                             "questions_ready", "", "")>>]
    ELSE QuestionGenerationAgent_generate_fallback_questions

QuestionGenerationAgent_run(s) ==
    IF ~Truthy(s.product)
    THEN {send_message("question_gen_worker", "parse_product_worker", "request",
                       "", "parse", "")}
    ELSE {QuestionGenerationAgent_generate(r) : r \in QuestionResponses}

----------------------------------------------------------------------------
(* Content tools used by PageGenerationAgent *)

\* BenefitsTool.execute on a list of n benefits, for service response r: the
\* parsed JSON value whatever its shape, the input list on any exception
BenefitsTool_execute(n, r) ==
    IF r.kind = "json"
    THEN IF r.value.kind = "list"
         THEN [is_list |-> TRUE, len |-> r.value.len]
         ELSE [is_list |-> FALSE, len |-> 0]
    ELSE [is_list |-> TRUE, len |-> n]

\* ComparisonTool.execute: the parsed JSON value whatever its shape, or on
\* any exception the fallback {"comparison": {...}}, which has no "products"
ComparisonTool_execute(r) ==
    IF r.kind = "json" THEN r.value
    ELSE ComparisonPage("dict", FALSE, FALSE)

----------------------------------------------------------------------------
(* PageGenerationAgent *)

PageGenerationAgent_should_activate(s) ==
    IF ~(~IsNone(s.faq_page) /\ ~IsNone(s.product_page) /\ ~IsNone(s.comparison_page))
    THEN TRUE
    ELSE LET msgs == read_messages("page_gen_worker", s)
         IN  \E i \in 1..Len(msgs) :
                /\ msgs[i].message_type = "request"
                /\ msgs[i].content.action = "refine"
                /\ msgs[i].content.target \in {"faq_page", "product_page", "comparison_page"}

\* The four question/answer pairs of the fallback FAQ
FallbackFaqItems == 4

\* _generate_faq_page: q_list[:2] raises on a category that is no sequence;
\* the try block catches JSONDecodeError, KeyError and ValueError only, so a
\* raising service call and a JSON value without .get (AttributeError)
\* leave the method.
PageGenerationAgent_generate_faq_page(questions, r) ==
    IF ~questions.sliceable THEN Raise
    ELSE IF r.kind = "ServiceError" THEN Raise
    ELSE IF r.kind = "NotJson" THEN FaqPage(FALSE, FallbackFaqItems)
    ELSE IF r.value.kind # "dict" THEN Raise
    ELSE r.value

\* _generate_product_page
PageGenerationAgent_generate_product_page(product, r) ==
    LET enhanced_benefits == BenefitsTool_execute(product.benefits, r)
    IN  ProductPage(enhanced_benefits.is_list, enhanced_benefits.len)

\* _generate_comparison_page
PageGenerationAgent_generate_comparison_page(r) == ComparisonTool_execute(r)

\* A page that run leaves out of its result
Unset == [kind |-> "unset"]

Field(name, v) == IF v = Unset THEN [x \in {} |-> None] ELSE (name :> v)

\* Mutant: the FAQ page is generated anew on every run
PageGenerationAgent_run_regenerates_faq(s) ==
    LET product   == s.product
        questions == s.questions
        faqs == {PageGenerationAgent_generate_faq_page(questions, r) :
                    r \in FaqResponses}
        pps  == IF ~Truthy(s.product_page)
                THEN {PageGenerationAgent_generate_product_page(product, r) :
                        r \in BenefitsResponses}
                ELSE {Unset}
        cps  == IF ~Truthy(s.comparison_page)
                THEN {PageGenerationAgent_generate_comparison_page(r) :
                        r \in ComparisonResponses}
                ELSE {Unset}
    IN  IF ~Truthy(product)
        THEN {send_message("page_gen_worker", "parse_product_worker", "request",
                           "", "parse", "")}
        ELSE IF ~Truthy(questions)
        THEN {send_message("page_gen_worker", "question_gen_worker", "request",
                           "", "generate", "")}
        ELSE {IF Raised(f) THEN Raise
              ELSE Field("faq_page", f) @@ Field("product_page", p)
                   @@ Field("comparison_page", c)
                   @@ [messages |-> <<Msg("page_gen_worker", "broadcast", "notify",
                                          "pages_generated", "", "")>>,
                       completed_tasks |-> <<"generate_pages">>] :
                f \in faqs, p \in pps, c \in cps}

PageGenerationAgent_run(s) ==
    LET product   == s.product
        questions == s.questions
        faqs == IF ~Truthy(s.faq_page)
                THEN {PageGenerationAgent_generate_faq_page(questions, r) :
                        r \in FaqResponses}
                ELSE {Unset}
        pps  == IF ~Truthy(s.product_page)
                THEN {PageGenerationAgent_generate_product_page(product, r) :
                        r \in BenefitsResponses}
                ELSE {Unset}
        cps  == IF ~Truthy(s.comparison_page)
                THEN {PageGenerationAgent_generate_comparison_page(r) :
                        r \in ComparisonResponses}
                ELSE {Unset}
    IN  IF ~Truthy(product)
        THEN {send_message("page_gen_worker", "parse_product_worker", "request",
                           "", "parse", "")}
        ELSE IF ~Truthy(questions)
        THEN {send_message("page_gen_worker", "question_gen_worker", "request",
                           "", "generate", "")}
        ELSE {IF Raised(f) THEN Raise
              ELSE Field("faq_page", f) @@ Field("product_page", p)
                   @@ Field("comparison_page", c)
                   @@ [messages |-> <<Msg("page_gen_worker", "broadcast", "notify",
                                          "pages_generated", "", "")>>,
                       completed_tasks |-> <<"generate_pages">>] :
                f \in faqs, p \in pps, c \in cps}

----------------------------------------------------------------------------
(* QualityCheckerAgent *)

\* Mutant: the completed-task log is not consulted
QualityCheckerAgent_should_activate_ignores_log(s) ==
    IF s.iteration_count >= max_iterations THEN FALSE
    ELSE /\ Truthy(s.faq_page)
         /\ Truthy(s.product_page)
         /\ Truthy(s.comparison_page)

QualityCheckerAgent_should_activate(s) ==
    IF s.iteration_count >= max_iterations THEN FALSE
    ELSE LET has_pages == /\ Truthy(s.faq_page)
                          /\ Truthy(s.product_page)
                          /\ Truthy(s.comparison_page)
             already_checked ==
                 \E i \in 1..Len(s.completed_tasks) : s.completed_tasks[i] = "quality_check"
         IN  has_pages /\ ~already_checked

\* The three structural checks of run, on pages that are dicts
faq_too_short(s) == s.faq_page.items < MinFaqItems
benefits_insufficient(s) ==
    s.product_page.benefits_is_list /\ s.product_page.benefits < MinBenefits
comparison_missing(s) == ~s.comparison_page.products
issues(s) == faq_too_short(s) \/ benefits_insufficient(s) \/ comparison_missing(s)

\* Mutant: refinement is asked for whether or not a check failed
QualityCheckerAgent_refines_without_issues(s) ==
    s.iteration_count < max_iterations - 1

\* `if issues and iteration < self.max_iterations - 1`
QualityCheckerAgent_refines(s) ==
    issues(s) /\ s.iteration_count < max_iterations - 1

\* run: state.get(page, {}) yields the stored value, None included, since
\* the key is present from the initial state on; .get on None or on a list
\* raises AttributeError.
QualityCheckerAgent_run(s) ==
    IF \/ s.faq_page.kind # "dict"
       \/ s.product_page.kind # "dict"
       \/ s.comparison_page.kind # "dict"
    THEN {Raise}
    ELSE IF QualityCheckerAgent_refines(s)
    THEN {[needs_refinement |-> PyTrue,
           iteration_count  |-> s.iteration_count + 1,
           messages |-> IF faq_too_short(s)
                        THEN <<Msg("quality_checker", "page_gen_worker", "request",
                                   "", "refine", "faq_page")>>
                        ELSE <<>>,
           completed_tasks |-> <<>>]}
    ELSE {[needs_refinement |-> PyFalse,
           messages |-> <<Msg("quality_checker", "broadcast", "notify",
                              "quality_approved", "", "")>>,
           completed_tasks |-> <<"quality_check">>]}

----------------------------------------------------------------------------
(* SynthesizerAgent *)

SynthesizerAgent_should_activate(s) ==
    LET all_complete == /\ ~IsNone(s.product)
                        /\ ~IsNone(s.questions)
                        /\ ~IsNone(s.faq_page)
                        /\ ~IsNone(s.product_page)
                        /\ ~IsNone(s.comparison_page)
    IN  IF all_complete THEN TRUE ELSE has_request("synthesizer", s)

Components == <<"product", "questions", "faq_page", "product_page", "comparison_page">>

\* run: the components whose value is falsy, in the order tested
missing(s) == SelectSeq(Components, LAMBDA c : ~Truthy(s[c]))

\* Mutant: the output is declared complete whatever is missing
SynthesizerAgent_run_always_complete(s) ==
    LET gathered == [c \in {Components[i] : i \in 1..Len(Components)} |-> s[c]]
    IN  {gathered @@ [messages |-> <<Msg("synthesizer", "broadcast", "notify",
                                         "synthesis_complete", "", "")>>,
                      needs_refinement |-> PyFalse]}

SynthesizerAgent_run(s) ==
    LET gathered == [c \in {Components[i] : i \in 1..Len(Components)} |-> s[c]]
        requests ==
            (IF ~Truthy(s.product)
             THEN <<Msg("synthesizer", "parse_product_worker", "request", "", "", "")>>
             ELSE <<>>)
            \o
            (IF ~Truthy(s.questions)
             THEN <<Msg("synthesizer", "question_gen_worker", "request", "", "", "")>>
             ELSE <<>>)
    IN  IF missing(s) # <<>>
        THEN {gathered @@ [messages |-> requests, needs_refinement |-> PyTrue]}
        ELSE {gathered @@ [messages |-> <<Msg("synthesizer", "broadcast", "notify",
                                              "synthesis_complete", "", "")>>,
                           needs_refinement |-> PyFalse]}

----------------------------------------------------------------------------
(* DynamicOrchestrator and orchestrator_node *)

\* DynamicOrchestrator.__init__: self.available_agents
available_agents ==
    {"parse_product_worker", "question_gen_worker", "page_gen_worker", "quality_checker"}

\* A task of a plan; depends_on is the list of agents, <<>> standing for null
Task(agent, priority, depends_on) ==
    [agent |-> agent, priority |-> priority, depends_on |-> depends_on]

\* Task lists the reasoning service may return: nothing, one task for each
\* agent of the table and for an agent outside it, a list whose order
\* disagrees with its priorities, a list with an agent outside the table
\* among agents of it, and the whole pipeline.
PlannerTaskLists ==
    {<<>>}
    \cup {<<Task(a, 1, <<>>)>> : a \in available_agents \cup {"unknown_agent"}}
    \cup {<<Task("page_gen_worker", 2, <<>>), Task("parse_product_worker", 1, <<>>)>>,
          <<Task("parse_product_worker", 1, <<>>), Task("unknown_agent", 2, <<>>),
            Task("page_gen_worker", 3, <<>>)>>,
          <<Task("parse_product_worker", 1, <<>>),
            Task("question_gen_worker", 2, <<"parse_product_worker">>),
            Task("page_gen_worker", 3, <<"question_gen_worker">>),
            Task("quality_checker", 4, <<>>)>>}

\* Responses of the reasoning service to the planner: keys_ok says whether
\* every task carries both "agent" and "reason"
PlannerResponses ==
    {ServiceError, NotJson, Json(NonDict)}
    \cup {Json([kind |-> "dict", falsy |-> FALSE, tasks |-> ts, keys_ok |-> TRUE]) :
            ts \in PlannerTaskLists}
    \cup {Json([kind |-> "dict", falsy |-> FALSE,
                tasks |-> <<Task("page_gen_worker", 1, <<>>)>>, keys_ok |-> FALSE])}

\* Mutant: the page task names an agent that is not in the table
create_fallback_plan_unknown_agent(s) ==
    (IF ~Truthy(s.product)
     THEN <<Task("parse_product_worker", 1, <<>>)>>
     ELSE <<>>)
    \o
    (IF ~Truthy(s.questions)
     THEN <<Task("question_gen_worker", 2,
                 IF ~Truthy(s.product) THEN <<"parse_product_worker">> ELSE <<>>)>>
     ELSE <<>>)
    \o
    (IF ~Truthy(s.faq_page) \/ ~Truthy(s.product_page) \/ ~Truthy(s.comparison_page)
     THEN <<Task("page_generator", 3,
                 IF ~Truthy(s.questions) THEN <<"question_gen_worker">> ELSE <<>>)>>
     ELSE <<>>)

\* Mutant: pages are planned only when all three are absent
create_fallback_plan_all_pages_absent(s) ==
    (IF ~Truthy(s.product)
     THEN <<Task("parse_product_worker", 1, <<>>)>>
     ELSE <<>>)
    \o
    (IF ~Truthy(s.questions)
     THEN <<Task("question_gen_worker", 2,
                 IF ~Truthy(s.product) THEN <<"parse_product_worker">> ELSE <<>>)>>
     ELSE <<>>)
    \o
    (IF ~Truthy(s.faq_page) /\ ~Truthy(s.product_page) /\ ~Truthy(s.comparison_page)
     THEN <<Task("page_gen_worker", 3,
                 IF ~Truthy(s.questions) THEN <<"question_gen_worker">> ELSE <<>>)>>
     ELSE <<>>)

\* _create_fallback_plan: the "tasks" of the plan it returns
create_fallback_plan(s) ==
    (IF ~Truthy(s.product)
     THEN <<Task("parse_product_worker", 1, <<>>)>>
     ELSE <<>>)
    \o
    (IF ~Truthy(s.questions)
     THEN <<Task("question_gen_worker", 2,
                 IF ~Truthy(s.product) THEN <<"parse_product_worker">> ELSE <<>>)>>
     ELSE <<>>)
    \o
    (IF ~Truthy(s.faq_page) \/ ~Truthy(s.product_page) \/ ~Truthy(s.comparison_page)
     THEN <<Task("page_gen_worker", 3,
                 IF ~Truthy(s.questions) THEN <<"question_gen_worker">> ELSE <<>>)>>
     ELSE <<>>)

\* analyze_state_and_plan for service response r: the "tasks" of plan_data,
\* or Raise.  The except clause names JSONDecodeError, KeyError and
\* ValueError: a raising service call (a plain Exception) and a JSON value
\* without .get (AttributeError) leave the method; a task without "agent" or
\* "reason" raises KeyError in the printing loop and ends in the fallback.
analyze_state_and_plan(s, r) ==
    IF r.kind = "ServiceError" THEN Raise
    ELSE IF r.kind = "NotJson" THEN [tasks |-> create_fallback_plan(s)]
    ELSE IF r.value.kind # "dict" THEN Raise
    ELSE IF ~r.value.keys_ok THEN [tasks |-> create_fallback_plan(s)]
    ELSE [tasks |-> r.value.tasks]

\* Mutant: the new tasks are added to the plan of the cycle before
orchestrator_node_extends_plan(s, r) ==
    LET plan_data == analyze_state_and_plan(s, r)
    IN  IF Raised(plan_data) THEN Raise
        ELSE [plan |-> s.plan \o [i \in 1..Len(plan_data.tasks) |->
                                      [type |-> plan_data.tasks[i].agent]],
              messages |-> <<Msg("orchestrator", "broadcast", "notify",
                                 "plan_created", "", "")>>]

\* orchestrator_node: the update it returns for service response r
orchestrator_node(s, r) ==
    LET plan_data == analyze_state_and_plan(s, r)
    IN  IF Raised(plan_data) THEN Raise
        ELSE [plan |-> [i \in 1..Len(plan_data.tasks) |->
                            [type |-> plan_data.tasks[i].agent]],
              messages |-> <<Msg("orchestrator", "broadcast", "notify",
                                 "plan_created", "", "")>>]

----------------------------------------------------------------------------
(* BaseAgent.__call__ *)

should_activate(name, s) ==
    CASE name = "parse_product_worker" -> ParseProductAgent_should_activate(s)
      [] name = "question_gen_worker"  -> QuestionGenerationAgent_should_activate(s)
      [] name = "page_gen_worker"      -> PageGenerationAgent_should_activate(s)
      [] name = "quality_checker"      -> QualityCheckerAgent_should_activate(s)
      [] name = "synthesizer"          -> SynthesizerAgent_should_activate(s)

run(name, s) ==
    CASE name = "parse_product_worker" -> ParseProductAgent_run(s)
      [] name = "question_gen_worker"  -> QuestionGenerationAgent_run(s)
      [] name = "page_gen_worker"      -> PageGenerationAgent_run(s)
      [] name = "quality_checker"      -> QualityCheckerAgent_run(s)
      [] name = "synthesizer"          -> SynthesizerAgent_run(s)

\* Mutant: a pending Request is not looked at
activates_without_request(name, s) == should_activate(name, s)

\* `if has_request or self.should_activate(state)`
activates(name, s) == has_request(name, s) \/ should_activate(name, s)

\* BaseAgent.__init__: the fields of an agent object (its message bus, to
\* which no code posts)
BaseAgent_init == [message_bus |-> <<>>]

\* Mutant: the predicate notes each call on the agent's bus and answers
\* only while the bus is empty
should_activate_call_posts(name, s, self) ==
    [value |-> should_activate(name, s) /\ self.message_bus = <<>>,
     state |-> s,
     self  |-> [self EXCEPT !.message_bus = Append(@, name)]]

\* A call self.should_activate(state) with its effects: the boolean it
\* returns, the state and the agent object it leaves.  The five methods read
\* the state with .get and read_messages and assign to nothing.
should_activate_call(name, s, self) ==
    [value |-> should_activate(name, s), state |-> s, self |-> self]

\* Mutant: a skipped agent returns an empty update
BaseAgent_call_silent_skip(name, s) ==
    LET completed == Msg(name, "broadcast", "notify", "completed", "", "")
    IN  IF activates(name, s)
        THEN {IF Raised(result) THEN Raise
              ELSE IF "messages" \in DOMAIN result
              THEN [result EXCEPT !.messages = @ \o <<completed>>]
              ELSE result @@ [messages |-> <<completed>>] :
                result \in run(name, s)}
        ELSE {[messages |-> <<>>]}

\* Mutant: the completed notification goes before the messages of run
BaseAgent_call_notifies_first(name, s) ==
    LET completed == Msg(name, "broadcast", "notify", "completed", "", "")
        skipped   == Msg(name, "orchestrator", "notify", "skipped", "", "")
    IN  IF activates(name, s)
        THEN {IF Raised(result) THEN Raise
              ELSE IF "messages" \in DOMAIN result
              THEN [result EXCEPT !.messages = <<completed>> \o @]
              ELSE result @@ [messages |-> <<completed>>] :
                result \in run(name, s)}
        ELSE {[messages |-> <<skipped>>]}

\* Mutant: a skipped agent also clears the refinement flag
BaseAgent_call_skip_clears_flag(name, s) ==
    LET completed == Msg(name, "broadcast", "notify", "completed", "", "")
        skipped   == Msg(name, "orchestrator", "notify", "skipped", "", "")
    IN  IF activates(name, s)
        THEN {IF Raised(result) THEN Raise
              ELSE IF "messages" \in DOMAIN result
              THEN [result EXCEPT !.messages = @ \o <<completed>>]
              ELSE result @@ [messages |-> <<completed>>] :
                result \in run(name, s)}
        ELSE {[messages |-> <<skipped>>, needs_refinement |-> PyFalse]}

\* The updates an invocation of agent `name` can return on state s
BaseAgent_call(name, s) ==
    LET completed == Msg(name, "broadcast", "notify", "completed", "", "")
        skipped   == Msg(name, "orchestrator", "notify", "skipped", "", "")
    IN  IF activates(name, s)
        THEN {IF Raised(result) THEN Raise
              ELSE IF "messages" \in DOMAIN result
              THEN [result EXCEPT !.messages = @ \o <<completed>>]
              ELSE result @@ [messages |-> <<completed>>] :
                result \in run(name, s)}
        ELSE {[messages |-> <<skipped>>]}

----------------------------------------------------------------------------
(* The dispatcher, assign_workers, and the router of router.py that goes    *)
(* with it.  The compiled graph of workflow.py does not use them.           *)

\* assign_workers: worker_map
worker_map ==
    [parse_product_worker |-> "parse_product_worker",
     question_gen_worker  |-> "question_gen_worker",
     page_gen_worker      |-> "page_gen_worker",
     quality_checker      |-> "quality_checker"]

\* Send(node_name, arg)
Send(node_name, arg) == [node |-> node_name, arg |-> arg]

\* The dict assign_workers hands to a worker for `task`
NarrowedView(s, task) ==
    [task             |-> task,
     raw_product_data |-> s.raw_product_data,
     product          |-> s.product,
     questions        |-> s.questions,
     faq_page         |-> s.faq_page,
     product_page     |-> s.product_page,
     comparison_page  |-> s.comparison_page,
     messages         |-> s.messages,
     iteration_count  |-> s.iteration_count]

\* Mutant: a task is sent on whether or not the table knows its agent
assign_workers_keeps_unknown(s) ==
    [i \in 1..Len(s.plan) |-> Send(s.plan[i].type, NarrowedView(s, s.plan[i]))]

\* Mutant: an empty plan is answered with a parse
assign_workers_parses_on_empty(s) ==
    LET task == [type |-> "parse_product_worker"]
    IN  IF s.plan = <<>>
        THEN <<Send("parse_product_worker", NarrowedView(s, task))>>
        ELSE LET valid == SelectSeq(s.plan, LAMBDA tk : tk.type \in DOMAIN worker_map)
             IN  [i \in 1..Len(valid) |->
                     Send(worker_map[valid[i].type], NarrowedView(s, valid[i]))]

\* Mutant: the view starts the iteration count afresh
assign_workers_resets_iteration(s) ==
    LET valid == SelectSeq(s.plan, LAMBDA tk : tk.type \in DOMAIN worker_map)
    IN  [i \in 1..Len(valid) |->
            Send(worker_map[valid[i].type],
                 [NarrowedView(s, valid[i]) EXCEPT !.iteration_count = 0])]

\* assign_workers: the list of Send it returns, one for each task of the
\* plan whose type worker_map knows, in plan order
assign_workers(s) ==
    LET plan == s.plan
    IN  IF plan = <<>> THEN <<>>
        ELSE LET valid == SelectSeq(plan, LAMBDA tk : tk.type \in DOMAIN worker_map)
             IN  [i \in 1..Len(valid) |->
                     Send(worker_map[valid[i].type], NarrowedView(s, valid[i]))]

\* The state an agent sees through a narrowed view: a key the view lacks
\* reads as the default of state.get (None, or [] for the two lists read
\* with a default)
ViewState(arg) ==
    [f \in DOMAIN initial_state(EmptyRawRecord) |->
        IF f \in DOMAIN arg THEN arg[f]
        ELSE IF f \in {"plan", "completed_tasks"} THEN <<>>
        ELSE None]

\* The updates the worker of a Send can return
DispatchResults(send) ==
    {u \in BaseAgent_call(send.node, ViewState(send.arg)) : ~Raised(u)}

\* router.py: route_after_orchestrator
router_route_after_orchestrator(s) ==
    IF s.plan # <<>> /\ Len(s.plan) > 0 THEN "assign_workers" ELSE "synthesizer"

\* Mutant: END is returned only on a flag that is False
analyze_and_route_ends_on_false_only(s) ==
    LET completed_tasks == s.completed_tasks
        iteration == s.iteration_count
        quality_checked ==
            \E i \in 1..Len(completed_tasks) : completed_tasks[i] = "quality_check"
    IN  IF s.needs_refinement = PyFalse /\ quality_checked THEN "END"
        ELSE IF Truthy(s.needs_refinement)
        THEN (IF iteration < 2 THEN "orchestrator" ELSE "synthesizer")
        ELSE IF completed_tasks = <<>> THEN "orchestrator"
        ELSE "synthesizer"

\* router.py, analyze_and_route: the standalone router
analyze_and_route(s) ==
    LET completed_tasks == s.completed_tasks
        iteration == s.iteration_count
        quality_checked ==
            \E i \in 1..Len(completed_tasks) : completed_tasks[i] = "quality_check"
        has_all_pages == /\ Truthy(s.faq_page)
                         /\ Truthy(s.product_page)
                         /\ Truthy(s.comparison_page)
    IN  IF s.needs_refinement = PyFalse /\ quality_checked THEN "END"
        ELSE IF Truthy(s.needs_refinement)
        THEN (IF iteration < 2 THEN "orchestrator" ELSE "synthesizer")
        ELSE IF completed_tasks = <<>> THEN "orchestrator"
        ELSE IF has_all_pages /\ ~quality_checked THEN "synthesizer"
        ELSE IF quality_checked THEN "END"
        ELSE "synthesizer"

----------------------------------------------------------------------------
(* Routers of workflow.py and the conditional edges of the graph *)

\* Mutant: the head of the plan is not looked at
route_after_orchestrator_ignores_head(s) ==
    IF s.plan = <<>> THEN "synthesizer" ELSE "parse_product"

\* Mutant: a head outside the three workers goes to the synthesizer
route_after_orchestrator_default_synthesizer(s) ==
    LET plan == s.plan
    IN  IF plan = <<>> THEN "synthesizer"
        ELSE LET first_task == plan[1].type
             IN  IF first_task = "parse_product_worker" THEN "parse_product"
                 ELSE IF first_task = "question_gen_worker" THEN "questions"
                 ELSE IF first_task = "page_gen_worker" THEN "pages"
                 ELSE "synthesizer"

route_after_orchestrator(s) ==
    LET plan == s.plan
    IN  IF plan = <<>> THEN "synthesizer"
        ELSE LET first_task == plan[1].type
             IN  IF first_task = "parse_product_worker" THEN "parse_product"
                 ELSE IF first_task = "question_gen_worker" THEN "questions"
                 ELSE IF first_task = "page_gen_worker" THEN "pages"
                 ELSE "parse_product"

\* Mutant: questions are always asked for
route_after_parse_always_questions(s) == "questions"

route_after_parse(s) ==
    IF ~Truthy(s.questions) THEN "questions" ELSE "pages"

route_after_questions(s) == "pages"

route_after_pages(s) == "quality"

\* Mutant: the iteration bound is not tested
route_after_quality_unbounded(s) ==
    IF Truthy(s.needs_refinement) THEN "orchestrator" ELSE "synthesizer"

\* Mutant: the refinement flag is not tested
route_after_quality_ignores_flag(s) ==
    IF s.iteration_count < RouterIterationBound THEN "orchestrator" ELSE "synthesizer"

route_after_quality(s) ==
    IF Truthy(s.needs_refinement) /\ s.iteration_count < RouterIterationBound
    THEN "orchestrator"
    ELSE "synthesizer"

\* Mutant: an unset flag is taken for a request to refine
route_after_synthesis_unset_refines(s) ==
    IF s.needs_refinement = PyFalse THEN "END"
    ELSE IF s.iteration_count < RouterIterationBound THEN "orchestrator"
    ELSE "END"

route_after_synthesis(s) ==
    IF s.needs_refinement = PyFalse THEN "END"
    ELSE IF Truthy(s.needs_refinement) /\ s.iteration_count < RouterIterationBound
    THEN "orchestrator"
    ELSE "END"

\* builder.add_conditional_edges(<node>, <router>, {key: target})
orchestrator_edges ==
    [parse_product |-> "parse_product_worker", questions |-> "question_gen_worker",
     pages |-> "page_gen_worker", synthesizer |-> "synthesizer"]
parse_product_edges ==
    [questions |-> "question_gen_worker", pages |-> "page_gen_worker"]
\* Mutant: question generation is wired past page generation
question_gen_edges_skip_pages == [pages |-> "quality_checker"]
question_gen_edges == [pages |-> "page_gen_worker"]
\* Mutant: page generation is wired past the quality check
page_gen_edges_skip_quality == [quality |-> "synthesizer"]
page_gen_edges == [quality |-> "quality_checker"]
quality_checker_edges ==
    [orchestrator |-> "orchestrator", synthesizer |-> "synthesizer"]
synthesizer_edges == [orchestrator |-> "orchestrator", END |-> "END"]

\* The node that follows `name` once its update is merged into s
next_node(name, s) ==
    CASE name = "orchestrator"         -> orchestrator_edges[route_after_orchestrator(s)]
      [] name = "parse_product_worker" -> parse_product_edges[route_after_parse(s)]
      [] name = "question_gen_worker"  -> question_gen_edges[route_after_questions(s)]
      [] name = "page_gen_worker"      -> page_gen_edges[route_after_pages(s)]
      [] name = "quality_checker"      -> quality_checker_edges[route_after_quality(s)]
      [] name = "synthesizer"          -> synthesizer_edges[route_after_synthesis(s)]

----------------------------------------------------------------------------
(* The workflow engine: one node per step *)

\* Entries of `new` that `log` does not hold yet
Fresh(log, new) ==
    SelectSeq(new, LAMBDA e : \A i \in 1..Len(log) : log[i] # e)

\* The history is recorded in full for the first MaxSteps invocations.
\* After that an accumulate log takes only entries it does not hold yet:
\* every read of a log in the program is a membership test, so the run goes
\* on exactly as it would with the full log, over finitely many states.
Bounded(s, u) ==
    IF Len(path) < MaxSteps THEN u
    ELSE [f \in DOMAIN u |-> IF f \in Accumulate THEN Fresh(s[f], u[f]) ELSE u[f]]

\* path records the first MaxSteps invocations
Visit(name) == IF Len(path) < MaxSteps THEN Append(path, name) ELSE path

\* One step of the engine: node `name` returns update u (or raises), the
\* update is merged and the router of `name` picks the next node.
Step(name, activated, updates) ==
    /\ node = name
    /\ \E u \in updates :
         /\ path' = Visit(name)
         /\ last' = name
         /\ ran' = activated
         /\ IF Raised(u)
            THEN /\ node' = "ERROR"
                 /\ UNCHANGED state
            ELSE LET merged == Merge(state, Bounded(state, u))
                 IN  /\ state' = merged
                     /\ node' = next_node(name, merged)

Orchestrator ==
    Step("orchestrator", TRUE,
         {orchestrator_node(state, r) : r \in PlannerResponses})

ParseProduct ==
    Step("parse_product_worker", activates("parse_product_worker", state),
         BaseAgent_call("parse_product_worker", state))

QuestionGen ==
    Step("question_gen_worker", activates("question_gen_worker", state),
         BaseAgent_call("question_gen_worker", state))

PageGen ==
    Step("page_gen_worker", activates("page_gen_worker", state),
         BaseAgent_call("page_gen_worker", state))

QualityCheck ==
    Step("quality_checker", activates("quality_checker", state),
         BaseAgent_call("quality_checker", state))

Synthesize ==
    Step("synthesizer", activates("synthesizer", state),
         BaseAgent_call("synthesizer", state))

\* Input records: empty, or populated with one or two benefits
InputRecords == {EmptyRawRecord} \cup {RawRecord(n) : n \in BenefitCounts}

\* builder.add_edge(START, "orchestrator") on main.py's initial_state
Init ==
    /\ state \in {initial_state(raw) : raw \in InputRecords}
    /\ node = "orchestrator"
    /\ last = "START"
    /\ ran = FALSE
    /\ path = <<>>

Next ==
    \/ Orchestrator
    \/ ParseProduct
    \/ QuestionGen
    \/ PageGen
    \/ QualityCheck
    \/ Synthesize

Spec == Init /\ [][Next]_vars

\* app.invoke runs the graph until END or an exception: it never stops
\* while a node is due.
FairSpec == Init /\ [][Next]_vars /\ WF_vars(Next)

\* A workflow resumed by a caller: app.invoke accepts any AgentState, so the
\* counter, the flag and the artifacts of an earlier run may come with it.
\* Product and questions are there; each page is absent or as generated.
ResumeStates ==
    {[initial_state(RawRecord(MinBenefits)) EXCEPT
        !.product = Product(MinBenefits),
        !.questions = Questions(FALSE, TRUE),
        !.faq_page = f,
        !.product_page = ProductPage(TRUE, MinBenefits),
        !.comparison_page = c,
        !.iteration_count = i,
        !.needs_refinement = nr] :
      f \in {None, FaqPage(FALSE, MinFaqItems - 1), FaqPage(FALSE, MinFaqItems)},
      c \in {ComparisonPage("dict", FALSE, FALSE), ComparisonPage("dict", FALSE, TRUE)},
      i \in 0..max_iterations,
      nr \in {None, PyTrue, PyFalse}}

ResumeInit ==
    /\ state \in ResumeStates
    /\ node = "orchestrator"
    /\ last = "START"
    /\ ran = FALSE
    /\ path = <<>>

ResumeSpec == ResumeInit /\ [][Next]_vars

\* A workflow invoked on a state whose message log already holds a Request,
\* addressed to the parser or to the quality checker (or on the initial
\* state): the log of an earlier run comes with the state the caller passes.
PendingMessages ==
    {<<>>,
     <<Msg("page_gen_worker", "parse_product_worker", "request", "", "parse", "")>>,
     <<Msg("orchestrator", "quality_checker", "request", "", "", "")>>}

RequestStates ==
    {[initial_state(RawRecord(MinBenefits)) EXCEPT
        !.product = p,
        !.questions = IF p = None THEN None ELSE Questions(FALSE, TRUE),
        !.messages = ms] :
      p \in {None, Product(MinBenefits)},
      ms \in PendingMessages}

RequestInit ==
    /\ state \in RequestStates
    /\ node = "orchestrator"
    /\ last = "START"
    /\ ran = FALSE
    /\ path = <<>>

RequestSpec == RequestInit /\ [][Next]_vars

----------------------------------------------------------------------------
(* Properties *)

InLog(log, e) == \E i \in 1..Len(log) : log[i] = e

\* Routed returns to the orchestrator: every invocation of it but the first
Reentries == Cardinality({i \in 2..Len(path) : path[i] = "orchestrator"})

\* The nodes of the graph, the "linear stages" of the bound on a run
LinearStages ==
    {"orchestrator", "parse_product_worker", "question_gen_worker",
     "page_gen_worker", "quality_checker", "synthesizer"}

StepBound == 2 * max_iterations + Cardinality(LinearStages)

\* The structural thresholds fail on state s (an absent page fails them)
thresholds_fail(s) ==
    \/ s.faq_page.kind # "dict"
    \/ s.product_page.kind # "dict"
    \/ s.comparison_page.kind # "dict"
    \/ issues(s)

\* C1: every run comes to an end.  The run ends at Done (END); a run aborted
\* by an exception (ERROR) is let pass here, so that what violates the
\* formula is a run that cycles through the orchestrator for ever.
C1_EveryRunEnds == <>(node = "END" \/ node = "ERROR")

\* C2: a run makes at most 2 * max_iterations + 6 node invocations (runs
\* aborted by an exception aside).
C2_DoneWithinStepBound == node # "ERROR" => Len(path) <= StepBound

\* C3: the orchestrator is re-entered at most max_iterations times in a run.
C3_ReentriesBounded == Reentries <= max_iterations

\* C4: with iteration_count at max_iterations, the node after the quality
\* checker is the synthesizer and the node after the synthesizer is END,
\* whatever needs_refinement holds (and whether or not the thresholds fail).
C4_BoundReachedForcesDone ==
    state.iteration_count >= max_iterations =>
        /\ (last = "quality_checker" /\ node # "ERROR") => node = "synthesizer"
        /\ last = "synthesizer" => node = "END"

\* C4 witness: a run at the bound, thresholds failing and refinement
\* requested, that went quality_checker, synthesizer, END.
C4_Witness ==
    /\ node = "END"
    /\ state.iteration_count = max_iterations
    /\ state.needs_refinement = PyTrue
    /\ thresholds_fail(state)
    /\ Len(path) >= 2
    /\ Len(path) < MaxSteps
    /\ path[Len(path) - 1] = "quality_checker"
    /\ path[Len(path)] = "synthesizer"

\* C5: after a quality_checker invocation the next node is the orchestrator
\* iff needs_refinement is true and iteration_count < 2 in the merged state,
\* and the synthesizer otherwise.
C5_RouteAfterQuality ==
    (last = "quality_checker" /\ node # "ERROR") =>
        IF state.needs_refinement = PyTrue /\ state.iteration_count < 2
        THEN node = "orchestrator"
        ELSE node = "synthesizer"

\* C5 witness: the quality checker ran, asked for refinement, and the
\* orchestrator is next.
C5_Witness ==
    /\ last = "quality_checker"
    /\ ran
    /\ state.needs_refinement = PyTrue
    /\ state.iteration_count < 2
    /\ node = "orchestrator"

\* C6: after a synthesizer invocation the next node is the orchestrator iff
\* that invocation ran and found components missing and iteration_count < 2,
\* and END otherwise.
C6_RouteAfterSynthesis ==
    last = "synthesizer" =>
        IF ran /\ missing(state) # <<>> /\ state.iteration_count < 2
        THEN node = "orchestrator"
        ELSE node = "END"

\* C6 witness: the synthesizer ran, found a component missing, and the
\* orchestrator is next.
C6_Witness ==
    /\ last = "synthesizer"
    /\ ran
    /\ missing(state) # <<>>
    /\ node = "orchestrator"

\* C7: after an orchestrator invocation the next node is the worker named by
\* the first task of the plan just written; an empty plan leads to the
\* synthesizer.
C7_RouteAfterOrchestrator ==
    (last = "orchestrator" /\ node # "ERROR") =>
        IF state.plan = <<>> THEN node = "synthesizer"
        ELSE /\ state.plan[1].type = "parse_product_worker" => node = "parse_product_worker"
             /\ state.plan[1].type = "question_gen_worker" => node = "question_gen_worker"
             /\ state.plan[1].type = "page_gen_worker" => node = "page_gen_worker"

\* C7 witness: a plan headed by page generation, out of priority order, has
\* been written and page_gen_worker is next.
C7_Witness ==
    /\ last = "orchestrator"
    /\ Len(state.plan) = 2
    /\ state.plan[1].type = "page_gen_worker"
    /\ node = "page_gen_worker"

\* C8: after a parse_product_worker invocation the next node is
\* question_gen_worker if the merged state holds no questions, and
\* page_gen_worker otherwise.
C8_RouteAfterParse ==
    last = "parse_product_worker" =>
        IF ~Truthy(state.questions)
        THEN node = "question_gen_worker"
        ELSE node = "page_gen_worker"

\* C8 witness: parse_product_worker was invoked with questions in the state
\* and page_gen_worker is next.
C8_Witness ==
    /\ last = "parse_product_worker"
    /\ Truthy(state.questions)
    /\ node = "page_gen_worker"

\* C9: the node after question_gen_worker is page_gen_worker and the node
\* after page_gen_worker is quality_checker, whatever the state and whether
\* or not the agent activated.
C9_LinearEdges ==
    /\ last = "question_gen_worker" => node = "page_gen_worker"
    /\ (last = "page_gen_worker" /\ node # "ERROR") => node = "quality_checker"

\* C9 witness: page_gen_worker was invoked, did not activate, and
\* quality_checker is next.
C9_Witness ==
    /\ last = "page_gen_worker"
    /\ ~ran
    /\ IsNone(state.needs_refinement) = FALSE
    /\ node = "quality_checker"

\* C10: when the quality checker executes, then if a threshold fails and
\* iteration_count < max_iterations it sets needs_refinement and adds one to
\* iteration_count; otherwise it clears needs_refinement, leaves
\* iteration_count alone and logs quality_check as completed.
C10_QualityCheckUpdate ==
    [][(/\ node = "quality_checker"
        /\ node' # "ERROR"
        /\ activates("quality_checker", state))
       => IF issues(state) /\ state.iteration_count < max_iterations
          THEN /\ state'.needs_refinement = PyTrue
               /\ state'.iteration_count = state.iteration_count + 1
          ELSE /\ state'.needs_refinement = PyFalse
               /\ state'.iteration_count = state.iteration_count
               /\ InLog(state'.completed_tasks, "quality_check")]_vars

\* A refine Request for artifact `target` is in the message log
RefineRequested(s, target) ==
    \E i \in 1..Len(s.messages) :
        /\ s.messages[i].message_type = "request"
        /\ s.messages[i].from_agent = "quality_checker"
        /\ s.messages[i].content.action = "refine"
        /\ s.messages[i].content.target = target

\* C11: when the quality checker has run and set needs_refinement, the log
\* holds a refine Request for every artifact whose threshold fails: the FAQ
\* page, the product page and the comparison page.
C11_RefineRequestPerIssue ==
    (/\ last = "quality_checker" /\ ran /\ node # "ERROR"
     /\ state.needs_refinement = PyTrue) =>
        /\ faq_too_short(state) => RefineRequested(state, "faq_page")
        /\ benefits_insufficient(state) => RefineRequested(state, "product_page")
        /\ comparison_missing(state) => RefineRequested(state, "comparison_page")

\* Every generated page is there and passes the checks of the quality checker
pages_meet_thresholds(s) ==
    /\ s.faq_page.kind = "dict" /\ Truthy(s.faq_page)
    /\ s.product_page.kind = "dict" /\ Truthy(s.product_page)
    /\ s.comparison_page.kind = "dict" /\ Truthy(s.comparison_page)
    /\ ~issues(s)

\* The single pass of scenario A
SinglePass ==
    <<"orchestrator", "parse_product_worker", "question_gen_worker",
      "page_gen_worker", "quality_checker", "synthesizer">>

\* C12 (scenario A): once the generated pages meet every threshold, the run
\* is on its one pass orchestrator, parse, questions, pages, quality check,
\* synthesizer; it is not aborted, iteration_count stays 0, and at END the
\* pass is complete with no component missing and no refinement asked for.
C12_ScenarioA ==
    (Truthy(state.raw_product_data) /\ pages_meet_thresholds(state)) =>
        /\ node # "ERROR"
        /\ state.iteration_count = 0
        /\ Len(path) <= Len(SinglePass)
        /\ path = SubSeq(SinglePass, 1, Len(path))
        /\ node = "END" =>
             /\ path = SinglePass
             /\ missing(state) = <<>>
             /\ state.needs_refinement = PyFalse
             /\ InLog(state.completed_tasks, "quality_check")

\* C12 witness: a run on a populated record whose pages meet the
\* thresholds has come to END.
C12_Witness ==
    /\ node = "END"
    /\ Truthy(state.raw_product_data)
    /\ pages_meet_thresholds(state)
    /\ path = SinglePass
    /\ state.iteration_count = 0

\* Number of invocations of node `name` recorded in path
Invocations(name) == Cardinality({i \in 1..Len(path) : path[i] = name})

\* C13 (scenario B): a run whose first quality check found the FAQ too
\* short (iteration_count went to 1) and which has come to END has invoked
\* page_gen_worker and the quality checker a second time, the second check
\* having passed, and ends with iteration_count = 1.
C13_ScenarioB ==
    (/\ node = "END" /\ Len(path) < MaxSteps
     /\ state.iteration_count >= 1
     /\ state.faq_page.kind = "dict" /\ faq_too_short(state)) =>
        /\ state.iteration_count = 1
        /\ Invocations("orchestrator") >= 2
        /\ Invocations("page_gen_worker") >= 2
        /\ Invocations("quality_checker") >= 2
        /\ InLog(state.completed_tasks, "quality_check")

\* The agents behind BaseAgent.__call__
AgentNodes ==
    {"parse_product_worker", "question_gen_worker", "page_gen_worker",
     "quality_checker", "synthesizer"}

\* The log of s holds a Request that agent `name` reads (sent to it or to all)
RequestAddressedTo(name, s) ==
    \E i \in 1..Len(s.messages) :
        /\ s.messages[i].message_type = "request"
        /\ s.messages[i].to_agent \in {name, "broadcast"}

\* C14: an agent invocation activates iff should_activate holds or the log
\* holds a Request addressed to the agent; the update of an activated
\* invocation is merged with the log kept as it was and a Notify "completed"
\* from the agent to broadcast as the last message, after those of run.
C14_ActivationProtocol ==
    [][(node \in AgentNodes) =>
        (/\ ran' = (should_activate(node, state) \/ RequestAddressedTo(node, state))
         /\ (ran' /\ node' # "ERROR" /\ Len(path) < MaxSteps) =>
              /\ Len(state'.messages) > Len(state.messages)
              /\ SubSeq(state'.messages, 1, Len(state.messages)) = state.messages
              /\ state'.messages[Len(state'.messages)] =
                     Msg(node, "broadcast", "notify", "completed", "", ""))]_vars

\* C14 witness: the parser, holding a product already, activated on a
\* pending Request alone and reported completion after its own message.
C14_Witness ==
    /\ last = "parse_product_worker"
    /\ ran
    /\ Len(path) = 2
    /\ Truthy(state.questions)
    /\ state.messages[1].message_type = "request"
    /\ Len(state.messages) = 4
    /\ state.messages[3].content.status = "product_parsed"
    /\ state.messages[4] =
           Msg("parse_product_worker", "broadcast", "notify", "completed", "", "")

\* C15: an agent invocation that does not activate changes nothing but the
\* message log, to which it adds one Notify "skipped" addressed to the
\* orchestrator.
C15_SkipFrame ==
    [][(node \in AgentNodes /\ ~activates(node, state)) =>
        (/\ node' # "ERROR"
         /\ \A f \in DOMAIN state \ {"messages"} : state'[f] = state[f]
         /\ Len(path) < MaxSteps =>
              state'.messages =
                  Append(state.messages,
                         Msg(node, "orchestrator", "notify", "skipped", "", ""))
         /\ Len(state'.messages) <= Len(state.messages) + 1)]_vars

\* C15 witness: the quality checker was skipped with the refinement flag
\* set, and the flag is still set.
C15_Witness ==
    /\ last = "quality_checker"
    /\ ~ran
    /\ state.needs_refinement = PyTrue
    /\ Len(path) < MaxSteps
    /\ state.messages[Len(state.messages)] =
           Msg("quality_checker", "orchestrator", "notify", "skipped", "", "")

Workers == {"parse_product_worker", "question_gen_worker", "page_gen_worker"}

\* Worker `name` lacks data it needs on state s
lacks_prerequisite(name, s) ==
    CASE name = "parse_product_worker" -> ~Truthy(s.raw_product_data)
      [] name = "question_gen_worker"  -> ~Truthy(s.product)
      [] name = "page_gen_worker"      -> ~Truthy(s.product) \/ ~Truthy(s.questions)

\* The agent expected to supply what worker `name` lacks on state s
supplier(name, s) ==
    CASE name = "parse_product_worker" -> "orchestrator"
      [] name = "question_gen_worker"  -> "parse_product_worker"
      [] name = "page_gen_worker"      ->
            IF ~Truthy(s.product) THEN "parse_product_worker"
            ELSE "question_gen_worker"

\* C17: an activated worker that lacks its prerequisite data does not raise;
\* its update adds to the log one Request to the supplier of the data
\* (followed by the completed notification) and changes no other field: no
\* artifact is written and the completed-task log is as it was.
C17_RequestOnMissingPrerequisite ==
    [][(node \in Workers /\ activates(node, state)
        /\ lacks_prerequisite(node, state)) =>
        (/\ node' # "ERROR"
         /\ \A f \in DOMAIN state \ {"messages"} : state'[f] = state[f]
         /\ Len(path) < MaxSteps =>
              /\ Len(state'.messages) = Len(state.messages) + 2
              /\ state'.messages[Len(state.messages) + 1].message_type = "request"
              /\ state'.messages[Len(state.messages) + 1].from_agent = node
              /\ state'.messages[Len(state.messages) + 1].to_agent =
                     supplier(node, state))]_vars

\* C17 witness: page generation ran on a state with a product and without
\* questions, asked the question generator for them and wrote no page.
C17_Witness ==
    /\ last = "page_gen_worker"
    /\ ran
    /\ Truthy(state.product)
    /\ ~Truthy(state.questions)
    /\ IsNone(state.faq_page)
    /\ ~InLog(state.completed_tasks, "generate_pages")
    /\ Len(state.messages) >= 2
    /\ state.messages[Len(state.messages) - 1] =
           Msg("page_gen_worker", "question_gen_worker", "request", "", "generate", "")

\* C18: no failure of the text-generation service aborts the run: an
\* invocation of the question generator or of the page generator, the two
\* agents that call the service, never raises.
C18_ServiceFailuresCaught ==
    ~(node = "ERROR" /\ last \in {"question_gen_worker", "page_gen_worker"})

\* C19: the orchestrator node never raises, whether the reasoning service
\* returns text that cannot be parsed into tasks or the call itself fails.
C19_PlannerNeverRaises == ~(node = "ERROR" /\ last = "orchestrator")

\* States on which the fallback plan is computed: s itself and s with the
\* product, the questions or the FAQ page taken out
PlanInputs(s) ==
    {[s EXCEPT !.product = p, !.questions = q, !.faq_page = f] :
        p \in {None, s.product}, q \in {None, s.questions}, f \in {None, s.faq_page}}

\* The agents of a task list, in order
Agents(tasks) == [i \in 1..Len(tasks) |-> tasks[i].agent]

\* The pipeline order of the three workers
WorkerOrder == <<"parse_product_worker", "question_gen_worker", "page_gen_worker">>

\* Task list `tasks` is the fallback plan that state s calls for
IsFallbackPlanFor(tasks, s) ==
    LET planned(a) == \E i \in 1..Len(tasks) : tasks[i].agent = a
        deps(a) == (CHOOSE i \in 1..Len(tasks) : tasks[i].agent = a)
        no_page == \E pg \in {"faq_page", "product_page", "comparison_page"} :
                       ~Truthy(s[pg])
    IN  /\ planned("parse_product_worker") <=> ~Truthy(s.product)
        /\ planned("question_gen_worker") <=> ~Truthy(s.questions)
        /\ planned("page_gen_worker") <=> no_page
        /\ Agents(tasks) = SelectSeq(WorkerOrder, planned)
        /\ planned("parse_product_worker") =>
               tasks[deps("parse_product_worker")].depends_on = <<>>
        /\ planned("question_gen_worker") =>
               tasks[deps("question_gen_worker")].depends_on =
                   IF planned("parse_product_worker")
                   THEN <<"parse_product_worker">> ELSE <<>>
        /\ planned("page_gen_worker") =>
               tasks[deps("page_gen_worker")].depends_on =
                   IF planned("question_gen_worker")
                   THEN <<"question_gen_worker">> ELSE <<>>

\* C20: the fallback plan holds parse iff the product is absent, question
\* generation iff the questions are absent and page generation iff one of the
\* three pages is absent, in that order; question generation depends on parse
\* exactly when parse is planned, page generation on question generation
\* exactly when that is planned.
C20_FallbackPlan ==
    \A s \in PlanInputs(state) : IsFallbackPlanFor(create_fallback_plan(s), s)

\* C20 witness: the orchestrator is due again with product and questions
\* there and a page empty, and the fallback plan is page generation alone,
\* depending on nothing.
C20_Witness ==
    /\ node = "orchestrator"
    /\ last # "START"
    /\ Truthy(state.product)
    /\ Truthy(state.questions)
    /\ create_fallback_plan(state) = <<Task("page_gen_worker", 3, <<>>)>>

\* The five artifacts
Artifacts == {"product", "questions", "faq_page", "product_page", "comparison_page"}

\* An artifact that is there and empty ({})
EmptyDict == [kind |-> "dict", falsy |-> TRUE]

\* State s with each artifact as it is ("same"), absent or empty, as the
\* choice a says
ArtifactVariant(s, a) ==
    [f \in DOMAIN s |->
        IF f \in Artifacts /\ a[f] = "absent" THEN None
        ELSE IF f \in Artifacts /\ a[f] = "empty" THEN EmptyDict
        ELSE s[f]]

\* C21: the fallback plan is total: on every state the planner is invoked
\* on, and on that state with each artifact absent, empty or as it is, it is
\* a list of tasks that each name an agent of
\* available_agents, and it is empty exactly when all five artifacts are
\* present.
C21_FallbackTotal ==
    node = "orchestrator" =>
    \A a \in [Artifacts -> {"same", "absent", "empty"}] :
        LET s == ArtifactVariant(state, a)
            tasks == create_fallback_plan(s)
        IN  /\ \A i \in 1..Len(tasks) : tasks[i].agent \in available_agents
            /\ Len(tasks) <= Cardinality(available_agents)
            /\ tasks = <<>> <=> \A f \in Artifacts : Truthy(s[f])

\* C21 witness: with the five artifacts present the orchestrator has planned
\* again and the fallback plan for the state is empty.
C21_Witness ==
    /\ last = "orchestrator"
    /\ state.iteration_count = 1
    /\ \A f \in Artifacts : Truthy(state[f])
    /\ state.plan = <<>>
    /\ create_fallback_plan(state) = <<>>

\* Sequence a is the beginning of sequence b
IsPrefix(a, b) == Len(a) <= Len(b) /\ SubSeq(b, 1, Len(a)) = a

\* C22: the message log and the completed-task log only grow: after every
\* node invocation each is the log before followed by zero or more entries.
C22_LogsOnlyGrow ==
    [][/\ IsPrefix(state.messages, state'.messages)
       /\ IsPrefix(state.completed_tasks, state'.completed_tasks)]_vars

\* C22 witness: both logs hold the entries of several invocations, the
\* first entries being those written first.
C22_Witness ==
    /\ Len(path) >= 3
    /\ Len(state.messages) >= 4
    /\ state.messages[1].from_agent = "orchestrator"
    /\ Len(state.completed_tasks) >= 2
    /\ state.completed_tasks[1] = "parse_product"

\* The updates the node due on state s can return without raising
UpdatesDue(name, s) ==
    IF name = "orchestrator"
    THEN {u \in {orchestrator_node(s, r) : r \in PlannerResponses} : ~Raised(u)}
    ELSE IF name \in AgentNodes
    THEN {u \in BaseAgent_call(name, s) : ~Raised(u)}
    ELSE {}

\* C23: merging an update into the state overwrites each Replace field the
\* update holds, appends the update's entries after those of each Accumulate
\* field, and leaves every field the update does not hold as it was.
C23_MergeSemantics ==
    \A u \in UpdatesDue(node, state) :
        LET merged == Merge(state, u)
        IN  /\ DOMAIN merged = DOMAIN state
            /\ \A f \in DOMAIN state :
                 IF f \notin DOMAIN u THEN merged[f] = state[f]
                 ELSE IF f \in {"messages", "completed_tasks"}
                 THEN /\ Len(merged[f]) = Len(state[f]) + Len(u[f])
                      /\ \A i \in 1..Len(state[f]) : merged[f][i] = state[f][i]
                      /\ \A i \in 1..Len(u[f]) : merged[f][Len(state[f]) + i] = u[f][i]
                 ELSE merged[f] = u[f]

\* C23 witness: page generation has run in full: its update wrote three
\* pages over None, added to both logs and left the product as it was.
C23_Witness ==
    /\ last = "page_gen_worker"
    /\ ran
    /\ Len(path) = 4
    /\ ~IsNone(state.faq_page)
    /\ ~IsNone(state.comparison_page)
    /\ state.product = Product(state.raw_product_data.benefits)
    /\ state.completed_tasks = <<"parse_product", "generate_questions", "generate_pages">>

\* Number of times e occurs in sequence a
Count(a, e) == Cardinality({i \in 1..Len(a) : a[i] = e})

\* Sequences a and b hold the same entries the same number of times
SameBag(a, b) ==
    /\ Len(a) = Len(b)
    /\ \A i \in 1..Len(a) : Count(a, a[i]) = Count(b, a[i])

\* The entries update u adds to log f
Entries(u, f) == IF f \in DOMAIN u THEN u[f] ELSE <<>>

\* The state after merging the updates of sequence us one after the other
RECURSIVE MergeAll(_, _)
MergeAll(s, us) ==
    IF us = <<>> THEN s ELSE MergeAll(Merge(s, Head(us)), Tail(us))

\* The entries the updates of us add to log f, in the order of us
RECURSIVE AllEntries(_, _)
AllEntries(us, f) ==
    IF us = <<>> THEN <<>> ELSE Entries(Head(us), f) \o AllEntries(Tail(us), f)

\* The ways the workers of the first k Sends of `sends` can answer: the
\* sequences of k updates, one from each worker
RECURSIVE ResultTuples(_, _)
ResultTuples(sends, k) ==
    IF k = 0 THEN {<<>>}
    ELSE {Append(us, u) : us \in ResultTuples(sends, k - 1),
                          u \in DispatchResults(sends[k])}

\* C24: the updates of one dispatcher step, merged in any order, give logs
\* with the same entries the same number of times: those of the log before
\* and those of every update, none lost and none duplicated.
C24_MergeOrderKeepsEntries ==
    (last = "orchestrator" /\ node # "ERROR") =>
        LET sends == assign_workers(state)
            n     == Len(sends)
        IN  \A us \in ResultTuples(sends, n) :
              \A p \in Permutations(1..n) :
                \A f \in Accumulate :
                  LET inOrder  == MergeAll(state, us)[f]
                      permuted == MergeAll(state, [i \in 1..n |-> us[p[i]]])[f]
                      expected == state[f] \o AllEntries(us, f)
                  IN  /\ SameBag(inOrder, permuted)
                      /\ SameBag(inOrder, expected)
                      /\ SameBag(permuted, expected)

\* C24 witness: in a refinement cycle the planner has listed the whole
\* pipeline, so the dispatcher step has four workers whose updates are
\* merged, the page generator logging generate_pages a second time.
C24_Witness ==
    /\ last = "orchestrator"
    /\ node # "ERROR"
    /\ state.iteration_count = 1
    /\ Len(assign_workers(state)) = 4
    /\ InLog(state.completed_tasks, "generate_pages")
    /\ \E us \in ResultTuples(assign_workers(state), 4) :
           Count(AllEntries(us, "completed_tasks"), "generate_pages") = 1

\* Task t put into the list `sorted`, which is in ascending priority, after
\* the tasks whose priority is not higher
InsertByPriority(t, sorted) ==
    LET k == Cardinality({i \in 1..Len(sorted) : sorted[i].priority <= t.priority})
    IN  SubSeq(sorted, 1, k) \o <<t>> \o SubSeq(sorted, k + 1, Len(sorted))

\* Tasks ts in ascending priority, ties in the order of ts
RECURSIVE SortByPriority(_)
SortByPriority(ts) ==
    IF ts = <<>> THEN <<>>
    ELSE InsertByPriority(ts[Len(ts)], SortByPriority(SubSeq(ts, 1, Len(ts) - 1)))

\* The task lists of the reasoning service that the plan of s was made from
PlansBehind(s) ==
    {r.value.tasks : r \in {x \in PlannerResponses :
                              /\ x.kind = "json"
                              /\ x.value.kind = "dict"
                              /\ x.value.keys_ok
                              /\ [i \in 1..Len(x.value.tasks) |->
                                     [type |-> x.value.tasks[i].agent]] = s.plan}}

\* C25: whatever plan the planner has returned, in priority order or not,
\* the workers are dispatched in ascending priority of their tasks, ties in
\* the order of the plan.
C25_DispatchByPriority ==
    (last = "orchestrator" /\ node # "ERROR") =>
        \A tasks \in PlansBehind(state) :
            LET sends == assign_workers(state)
                valid == SelectSeq(tasks, LAMBDA tk : tk.agent \in DOMAIN worker_map)
            IN  [i \in 1..Len(sends) |-> sends[i].node] =
                    Agents(SortByPriority(valid))

\* The messages of `log` from position i on that agent `name` is to read,
\* in log order
RECURSIVE MessagesFrom(_, _, _)
MessagesFrom(name, log, i) ==
    IF i > Len(log) THEN <<>>
    ELSE (IF log[i].to_agent = name \/ log[i].to_agent = "broadcast"
          THEN <<log[i]>> ELSE <<>>)
         \o MessagesFrom(name, log, i + 1)

MessagesFor(name, log) == MessagesFrom(name, log, 1)

\* C26: what an agent reads is, in log order, exactly the messages of the
\* log sent to it or to broadcast; a node invocation, which reads the log,
\* takes no message away: what an agent could read before it can read after,
\* followed by what is new.
C26_ReadMessages ==
    [][\A name \in AgentNodes :
         /\ read_messages(name, state') = MessagesFor(name, state'.messages)
         /\ IsPrefix(read_messages(name, state), read_messages(name, state'))]_vars

\* C26 witness: the page generator has run in a refinement cycle on the
\* Request of the quality checker, which it still reads and the parser does
\* not.
C26_Witness ==
    /\ last = "page_gen_worker"
    /\ ran
    /\ state.iteration_count = 1
    /\ Len(read_messages("page_gen_worker", state)) = Len(state.messages)
    /\ Len(read_messages("parse_product_worker", state)) = Len(state.messages) - 1
    /\ \E i \in 1..Len(state.messages) :
           /\ state.messages[i].to_agent = "page_gen_worker"
           /\ state.messages[i].message_type = "request"

\* The tasks of the plan of s whose agent the table knows, in plan order
ValidTasks(s) == SelectSeq(s.plan, LAMBDA tk : tk.type \in available_agents)

\* C27: the dispatcher drops a task whose agent is not in the table and
\* sends one invocation for each of the other tasks and for nothing else, so
\* that only workers of the table are invoked.
C27_UnknownAgentDropped ==
    LET sends == assign_workers(state)
    IN  /\ Len(sends) = Len(ValidTasks(state))
        /\ \A i \in 1..Len(sends) :
             /\ sends[i].node \in available_agents
             /\ sends[i].node = ValidTasks(state)[i].type

\* C27 witness: the plan lists an unknown agent between two workers and the
\* dispatcher sends to the two workers.
C27_Witness ==
    /\ last = "orchestrator"
    /\ Len(state.plan) = 3
    /\ state.plan[2].type = "unknown_agent"
    /\ Len(assign_workers(state)) = 2
    /\ assign_workers(state)[2].node = "page_gen_worker"

\* C28: on an empty plan the dispatcher sends nothing, so that merging its
\* results leaves the state as it is, and the router of router.py goes to
\* the synthesizer; on any other plan that router goes to the dispatcher.
C28_EmptyPlanNoDispatch ==
    IF state.plan = <<>>
    THEN /\ assign_workers(state) = <<>>
         /\ ResultTuples(assign_workers(state), 0) = {<<>>}
         /\ MergeAll(state, <<>>) = state
         /\ router_route_after_orchestrator(state) = "synthesizer"
    ELSE router_route_after_orchestrator(state) = "assign_workers"

\* C28 witness: the orchestrator has written an empty plan.
C28_Witness ==
    /\ last = "orchestrator"
    /\ node = "synthesizer"
    /\ state.plan = <<>>
    /\ assign_workers(state) = <<>>

\* The keys of the view a worker is given
ViewKeys ==
    {"task", "raw_product_data", "product", "questions", "faq_page",
     "product_page", "comparison_page", "messages", "iteration_count"}

\* C29: for each task of the plan whose agent is in the table the
\* dispatcher sends one invocation, in plan order, whose view holds the task
\* and, each as in the state, the input record, the product, the questions,
\* the three pages, the message log and the iteration count, and no more.
C29_NarrowedView ==
    LET sends == assign_workers(state)
        valid == ValidTasks(state)
    IN  /\ Len(sends) = Len(valid)
        /\ \A i \in 1..Len(sends) :
             /\ sends[i].node = valid[i].type
             /\ DOMAIN sends[i].arg = ViewKeys
             /\ sends[i].arg.task = valid[i]
             /\ \A k \in ViewKeys \ {"task"} : sends[i].arg[k] = state[k]

\* C29 witness: in a refinement cycle a worker is sent a view that holds
\* the product and the count 1.
C29_Witness ==
    /\ last = "orchestrator"
    /\ state.iteration_count = 1
    /\ Len(assign_workers(state)) >= 1
    /\ assign_workers(state)[1].arg.iteration_count = 1
    /\ Truthy(assign_workers(state)[1].arg.product)

\* C30: an orchestrator invocation replaces the plan by the tasks of the
\* plan it has just produced, in the planner's order, and changes neither
\* iteration_count nor needs_refinement nor an artifact.
C30_PlanReplaced ==
    [][(node = "orchestrator" /\ node' # "ERROR") =>
        (/\ \E r \in PlannerResponses :
              LET plan_data == analyze_state_and_plan(state, r)
              IN  /\ ~Raised(plan_data)
                  /\ state'.plan = [i \in 1..Len(plan_data.tasks) |->
                                       [type |-> plan_data.tasks[i].agent]]
         /\ \A f \in Artifacts \cup {"iteration_count", "needs_refinement"} :
              state'[f] = state[f])]_vars

\* C30 witness: a second planning cycle has left a plan of one task, page
\* generation, where the first plan led to the parser.
C30_Witness ==
    /\ last = "orchestrator"
    /\ Len(path) >= 3
    /\ Len(path) < MaxSteps
    /\ path[2] = "parse_product_worker"
    /\ state.iteration_count = 1
    /\ state.plan = <<[type |-> "page_gen_worker"]>>

\* Times the edge from the quality checker to the orchestrator was taken:
\* the pairs on the recorded path and the edge chosen by the last invocation
QualityToPlanning ==
    Cardinality({i \in 1..(Len(path) - 1) :
                    path[i] = "quality_checker" /\ path[i + 1] = "orchestrator"})
    + (IF last = "quality_checker" /\ node = "orchestrator" THEN 1 ELSE 0)

\* C31: in a run from iteration_count = 0 the count never exceeds 1, so the
\* routers' test iteration_count < 2 never fails, and the orchestrator
\* follows the quality checker at most once.
C31_IterationAtMostOne ==
    /\ state.iteration_count <= 1
    /\ state.iteration_count < RouterIterationBound
    /\ QualityToPlanning <= 1

\* The three pages
Pages == {"faq_page", "product_page", "comparison_page"}

\* C32: a page that holds a non-empty value is changed by no later node
\* invocation, a page_gen_worker invocation activated by a refine Request
\* included.
C32_PagesWriteOnce ==
    [][\A pg \in Pages : Truthy(state[pg]) => state'[pg] = state[pg]]_vars

\* C32 witness: in a refinement cycle the page generator has run on the
\* Request to refine a FAQ page that is too short, and the page is as short
\* as it was.
C32_Witness ==
    /\ last = "page_gen_worker"
    /\ ran
    /\ state.iteration_count = 1
    /\ RefineRequested(state, "faq_page")
    /\ state.faq_page = FaqPage(FALSE, MinFaqItems - 1)
    /\ Count(state.completed_tasks, "generate_pages") = 2

\* C33: once the log holds a Request addressed to an agent, every invocation
\* of that agent activates, whatever should_activate returns.
C33_RequestsSticky ==
    [][(node \in AgentNodes /\ RequestAddressedTo(node, state)) => ran']_vars

\* C33 witness: the parser, asked once by a Request, has run a second time
\* on it with the product there all along.
C33_Witness ==
    /\ last = "parse_product_worker"
    /\ ran
    /\ Len(path) < MaxSteps
    /\ state.messages[1].to_agent = "parse_product_worker"
    /\ state.messages[1].message_type = "request"
    /\ Count(state.completed_tasks, "parse_product") = 2
    /\ ~InLog(state.completed_tasks, "generate_questions")

\* C34: every node invocation that returns adds at least one message to the
\* log, so the log is at least as long as the number of invocations made.
C34_EveryInvocationLogs ==
    [][(Len(path) < MaxSteps /\ node' # "ERROR") =>
        (/\ Len(state'.messages) > Len(state.messages)
         /\ Len(state'.messages) >= Len(path'))]_vars

\* C34 witness: six invocations, two of them skipped, have left at least
\* six messages, the last one the notice of a skip.
C34_Witness ==
    /\ Len(path) = 6
    /\ ~ran
    /\ Len(state.messages) >= 6
    /\ state.messages[Len(state.messages)].content.status = "skipped"
    /\ state.messages[Len(state.messages) - 1].content.status = "skipped"

\* C35: a non-empty plan whose head names none of the three workers sends
\* the workflow from the orchestrator to parse_product_worker.
C35_OtherHeadGoesToParse ==
    (state.plan # <<>> /\ state.plan[1].type \notin Workers) =>
        /\ route_after_orchestrator(state) = "parse_product"
        /\ (last = "orchestrator" /\ node # "ERROR") => node = "parse_product_worker"

\* C35 witness: a plan headed by quality_checker has been written and
\* parse_product_worker is next.
C35_Witness ==
    /\ last = "orchestrator"
    /\ state.plan # <<>>
    /\ state.plan[1].type = "quality_checker"
    /\ node = "parse_product_worker"

\* The stages that can follow a worker
AfterWorker(name) ==
    CASE name = "parse_product_worker" -> {"question_gen_worker", "page_gen_worker"}
      [] name = "question_gen_worker"  -> {"page_gen_worker"}
      [] name = "page_gen_worker"      -> {"quality_checker"}

\* Plans with the head of the plan of s and another rest
OtherTails(s) ==
    {<<s.plan[1]>> \o tail :
        tail \in {<<>>, <<[type |-> "quality_checker"]>>,
                  <<[type |-> "page_gen_worker"], [type |-> "parse_product_worker"]>>}}

\* C36: the node after any node is the same whatever the rest of the plan
\* is; the orchestrator is followed by a worker or the synthesizer, and a
\* worker by the next stage of the line up to quality_checker, one node at a
\* time.
C36_LinearStagesInOrder ==
    /\ \A i \in 1..(Len(path) - 1) :
          /\ path[i] \in Workers => path[i + 1] \in AfterWorker(path[i])
          /\ path[i] = "orchestrator" => path[i + 1] \in Workers \cup {"synthesizer"}
    /\ (last \in Workers /\ node # "ERROR") => node \in AfterWorker(last)
    /\ state.plan # <<>> =>
          \A name \in LinearStages : \A plan \in OtherTails(state) :
              next_node(name, [state EXCEPT !.plan = plan]) = next_node(name, state)

\* C36 witness: the plan lists the parser, an unknown agent and the page
\* generator, and the first pass went through question generation and the
\* quality checker all the same.
C36_Witness ==
    /\ path = <<"orchestrator", "parse_product_worker", "question_gen_worker",
                "page_gen_worker", "quality_checker">>
    /\ Len(state.plan) = 3
    /\ \A i \in 1..Len(state.plan) :
          state.plan[i].type \notin {"question_gen_worker", "quality_checker"}

\* C37: quality_check is logged at most once, and with it in the log the
\* quality checker does not activate.
C37_QualityCheckOnce ==
    /\ Count(state.completed_tasks, "quality_check") <= 1
    /\ InLog(state.completed_tasks, "quality_check") =>
          ~activates("quality_checker", state)

\* C37 witness: the quality checker has approved; the pages are all there
\* and the iteration bound is not reached, so that only the logged entry
\* keeps it from activating.
C37_Witness ==
    /\ last = "quality_checker"
    /\ ran
    /\ InLog(state.completed_tasks, "quality_check")
    /\ \A pg \in Pages : Truthy(state[pg])
    /\ state.iteration_count < max_iterations
    /\ ~QualityCheckerAgent_should_activate(state)

\* C38: a run that is at END with needs_refinement false holds all five
\* artifacts, none of them empty.
C38_DoneIsComplete ==
    (node = "END" /\ state.needs_refinement = PyFalse) =>
        \A a \in Artifacts : Truthy(state[a])

\* C38 witness: a run has ended after one refinement cycle with the flag
\* false and the artifacts there.
C38_Witness ==
    /\ node = "END"
    /\ last = "synthesizer"
    /\ state.needs_refinement = PyFalse
    /\ state.iteration_count = 1
    /\ \A a \in Artifacts : Truthy(state[a])

\* The states the standalone router is asked about: the state of the run
\* with any refinement flag and iteration count
RouterViews ==
    {[state EXCEPT !.needs_refinement = nr, !.iteration_count = i] :
        nr \in {None, PyTrue, PyFalse}, i \in 0..max_iterations}

\* C39: analyze_and_route returns END exactly when quality_check is logged
\* and needs_refinement is not true; with needs_refinement true it returns
\* orchestrator below iteration 2 and synthesizer from there on; with an empty
\* completed-task log and no refinement asked for it returns orchestrator.
C39_AnalyzeAndRoute ==
    \A s \in RouterViews :
        /\ (analyze_and_route(s) = "END") <=>
              (InLog(s.completed_tasks, "quality_check") /\ s.needs_refinement # PyTrue)
        /\ s.needs_refinement = PyTrue =>
              analyze_and_route(s) =
                  IF s.iteration_count < 2 THEN "orchestrator" ELSE "synthesizer"
        /\ (s.completed_tasks = <<>> /\ s.needs_refinement # PyTrue) =>
              analyze_and_route(s) = "orchestrator"

\* C39 witness: at the end of an approved run the router says END, and with
\* refinement asked for at iteration 2 it says synthesizer.
C39_Witness ==
    /\ node = "END"
    /\ InLog(state.completed_tasks, "quality_check")
    /\ state.needs_refinement = PyFalse
    /\ analyze_and_route(state) = "END"
    /\ analyze_and_route([state EXCEPT !.needs_refinement = PyTrue,
                                       !.iteration_count = 2]) = "synthesizer"

====
